---- MODULE Spec2Model ----
(***************************************************************************)
(* A model of the uC lexer (uc/uc_lexer.py, class UCLexer) together with   *)
(* the scanning engine it is built on.  Source text is a sequence of       *)
(* one-character strings; offsets are 0-based as in the program, so the    *)
(* character at offset p of s is s[p + 1].                                 *)
(***************************************************************************)
EXTENDS Integers, Sequences, FiniteSets, TLC

VARIABLES lexdata, lexpos, lineno, last_token, output, origin

vars == <<lexdata, lexpos, lineno, last_token, output, origin>>

(***************************************************************************)
(* Characters                                                              *)
(***************************************************************************)
NL == "\n"
DQ == "\""
SQ == "'"
BS == "\\"

Digits == {"0", "1", "2", "3", "4", "5", "6", "7", "8", "9"}

Letters ==
    {"a", "b", "c", "d", "e", "f", "g", "h", "i", "j", "k", "l", "m",
     "n", "o", "p", "q", "r", "s", "t", "u", "v", "w", "x", "y", "z",
     "A", "B", "C", "D", "E", "F", "G", "H", "I", "J", "K", "L", "M",
     "N", "O", "P", "Q", "R", "S", "T", "U", "V", "W", "X", "Y", "Z"}

\* \w of the regular expressions
WordChars == Letters \cup Digits \cup {"_"}

\* the value of a failed match
NoMatch == 0 - 1

\* Python's None, as the value of last_token and of a call of token()
None == [py |-> "None"]

\* Python's None, as the value of lexdata before the first input(): a value
\* that is no source text
NoData == <<"None">>

\* s[p] of the program (0-based); only used with 0 <= p < Len(s)
Ch(s, p) == s[p + 1]

\* s[a:b] of the program
Slice(s, a, b) == SubSeq(s, a + 1, b)

\* does the literal text lit start at offset p of s
StartsWith(s, p, lit) ==
    /\ p + Len(lit) <= Len(s)
    /\ \A i \in 1..Len(lit) : s[p + i] = lit[i]

\* a fixed-text rule: the end offset of lit at p, or NoMatch
MatchLit(s, p, lit) == IF StartsWith(s, p, lit) THEN p + Len(lit) ELSE NoMatch

(***************************************************************************)
(* The regular expressions of the rules.  Each operator gives the end      *)
(* offset of the match the backtracking matcher finds at offset p (the     *)
(* first successful path, alternatives tried left to right, greedy         *)
(* repetitions longest first, lazy ones shortest first), or NoMatch.       *)
(***************************************************************************)

\* (\d|_\d)* , greedy, from offset p.  The two alternatives start with
\* different characters, and a shorter repetition always stops in front of a
\* digit or "_", so no backtracking into it can make a later "." , "e" match.
RECURSIVE DigitsRest(_, _)
DigitsRest(s, p) ==
    IF p < Len(s) /\ Ch(s, p) \in Digits THEN DigitsRest(s, p + 1)
    ELSE IF p + 1 < Len(s) /\ Ch(s, p) = "_" /\ Ch(s, p + 1) \in Digits
         THEN DigitsRest(s, p + 2)
         ELSE p

\* \d(\d|_\d)*
DigitSeq(s, p) ==
    IF p < Len(s) /\ Ch(s, p) \in Digits THEN DigitsRest(s, p + 1) ELSE NoMatch

\* t_INT_CONST = \d(\d|_\d)*
INT_CONST(s, p) == DigitSeq(s, p)

\* (\d|_\d) , exactly once
DigitUnit(s, p) ==
    IF p < Len(s) /\ Ch(s, p) \in Digits THEN p + 1
    ELSE IF p + 1 < Len(s) /\ Ch(s, p) = "_" /\ Ch(s, p + 1) \in Digits
         THEN p + 2
         ELSE NoMatch

\* (E|e)(\+|-)?\d(\d|_\d)*
Exponent(s, p) ==
    IF p < Len(s) /\ Ch(s, p) \in {"E", "e"}
    THEN IF p + 1 < Len(s) /\ Ch(s, p + 1) \in {"+", "-"}
         THEN DigitSeq(s, p + 2)   \* without the sign \d meets the sign: no match
         ELSE DigitSeq(s, p + 1)
    ELSE NoMatch

\* a if a is a match, else b
OrElse(a, b) == IF a # NoMatch THEN a ELSE b

\* \.(\d(\d|_\d)*)? after the digits that end at d
PointAfter(s, d) ==
    IF d # NoMatch /\ d < Len(s) /\ Ch(s, d) = "."
    THEN OrElse(DigitSeq(s, d + 1), d + 1)
    ELSE NoMatch

\* first alternative:  \d(\d|_\d)*\.(\d(\d|_\d)*)?     (numbers like 123.)
FloatPoint(s, p) == PointAfter(s, DigitSeq(s, p))

\* ((E|e)(\+|-)?\d(\d|_\d)*)? after the fraction that ends at f
ExponentAfter(s, f) ==
    IF f = NoMatch THEN NoMatch ELSE OrElse(Exponent(s, f), f)

\* \.\d(\d|_\d)* ((E|e)(\+|-)?\d(\d|_\d)*)? at offset q
FractionAt(s, q) ==
    IF q < Len(s) /\ Ch(s, q) = "."
    THEN ExponentAfter(s, DigitSeq(s, q + 1))
    ELSE NoMatch

\* second alternative: (\d(\d|_\d)*)?\.\d(\d|_\d)* ((E|e)(\+|-)?\d(\d|_\d)*)?
\*                     (and .456, can be 1.23e-2)
FloatFraction(s, p) == FractionAt(s, OrElse(DigitSeq(s, p), p))

\* (E|e) after the two digits that end at u
MarkAfter(s, u) ==
    IF u # NoMatch /\ u < Len(s) /\ Ch(s, u) \in {"E", "e"}
    THEN u + 1 ELSE NoMatch

\* (\+|-)? after the exponent mark that ends at e
SignAfter(s, e) ==
    IF e # NoMatch /\ e < Len(s) /\ Ch(s, e) \in {"+", "-"}
    THEN e + 1 ELSE e

\* \d(\d|_\d) at offset g
TwoDigits(s, g) ==
    IF g # NoMatch /\ g < Len(s) /\ Ch(s, g) \in Digits
    THEN DigitUnit(s, g + 1)
    ELSE NoMatch

\* third alternative:  \d(\d|_\d)(E|e)(\+|-)?\d(\d|_\d)
\*                     (fractional isn't required with exponents)
FloatExponent(s, p) ==
    TwoDigits(s, SignAfter(s, MarkAfter(s, TwoDigits(s, p))))

\* t_FLOAT_CONST: ( ( (first) | (second) ) | (third) )
FLOAT_CONST(s, p) ==
    OrElse(FloatPoint(s, p), OrElse(FloatFraction(s, p), FloatExponent(s, p)))

\* (\\.|.)+?\' : CharUnit takes one more repetition ( \\. first, else . ),
\* CharLazy is the lazy repetition after the first: it closes if it can
RECURSIVE CharLazy(_, _), CharUnit(_, _)
CharUnit(s, q) ==
    OrElse(IF Ch(s, q) = BS /\ q + 1 < Len(s) /\ Ch(s, q + 1) # NL
           THEN CharLazy(s, q + 2) ELSE NoMatch,
           IF Ch(s, q) # NL THEN CharLazy(s, q + 1) ELSE NoMatch)

CharLazy(s, q) ==
    IF q >= Len(s) THEN NoMatch
    ELSE IF Ch(s, q) = SQ THEN q + 1
    ELSE CharUnit(s, q)

\* t_CHAR_CONST = \'(\\.|.)+?\'
CHAR_CONST(s, p) ==
    IF p + 1 < Len(s) /\ Ch(s, p) = SQ THEN CharUnit(s, p + 1) ELSE NoMatch

\* (\\.|.|\n)*?\" : close if possible, else take \\. , else take any one
\* character ( . or \n ), and try again
RECURSIVE StringLazy(_, _)
StringLazy(s, q) ==
    IF q >= Len(s) THEN NoMatch
    ELSE IF Ch(s, q) = DQ THEN q + 1
    ELSE OrElse(IF Ch(s, q) = BS /\ q + 1 < Len(s) /\ Ch(s, q + 1) # NL
                THEN StringLazy(s, q + 2) ELSE NoMatch,
                StringLazy(s, q + 1))

\* t_STRING_LITERAL: \"(\\.|.|\n)*?\"
STRING_LITERAL(s, p) ==
    IF p < Len(s) /\ Ch(s, p) = DQ THEN StringLazy(s, p + 1) ELSE NoMatch

\* (\\.|.|\n)* , greedy
RECURSIVE StringGreedy(_, _)
StringGreedy(s, q) ==
    IF q >= Len(s) THEN q
    ELSE IF Ch(s, q) = BS /\ q + 1 < Len(s) /\ Ch(s, q + 1) # NL
         THEN StringGreedy(s, q + 2)
         ELSE StringGreedy(s, q + 1)

\* t_unterminated_string: \"(\\.|.|\n)*
unterminated_string(s, p) ==
    IF p < Len(s) /\ Ch(s, p) = DQ THEN StringGreedy(s, p + 1) ELSE NoMatch

\* \w* , greedy
RECURSIVE WordRest(_, _)
WordRest(s, p) ==
    IF p < Len(s) /\ Ch(s, p) \in WordChars THEN WordRest(s, p + 1) ELSE p

\* t_ID: [^\d\W]\w*
ID(s, p) ==
    IF p < Len(s) /\ Ch(s, p) \in WordChars \ Digits
    THEN WordRest(s, p + 1) ELSE NoMatch

\* \n* , greedy
RECURSIVE NewlineRest(_, _)
NewlineRest(s, p) ==
    IF p < Len(s) /\ Ch(s, p) = NL THEN NewlineRest(s, p + 1) ELSE p

\* t_NEWLINE: \n+
NEWLINE(s, p) ==
    IF p < Len(s) /\ Ch(s, p) = NL THEN NewlineRest(s, p + 1) ELSE NoMatch

\* (.|\n)*?\*/ : stop at the first */
RECURSIVE CommentLazy(_, _)
CommentLazy(s, q) ==
    IF q >= Len(s) THEN NoMatch
    ELSE IF StartsWith(s, q, <<"*", "/">>) THEN q + 2
    ELSE CommentLazy(s, q + 1)

\* .* , greedy ( . is any character but a newline)
RECURSIVE LineRest(_, _)
LineRest(s, p) ==
    IF p < Len(s) /\ Ch(s, p) # NL THEN LineRest(s, p + 1) ELSE p

\* t_comment: (/\*(.|\n)*?\*/)|(//.*)
comment(s, p) ==
    OrElse(IF StartsWith(s, p, <<"/", "*">>)
           THEN CommentLazy(s, p + 2) ELSE NoMatch,
           IF StartsWith(s, p, <<"/", "/">>)
           THEN LineRest(s, p + 2) ELSE NoMatch)

\* (.|\n)* , greedy
RECURSIVE AnyRest(_, _)
AnyRest(s, p) == IF p < Len(s) THEN AnyRest(s, p + 1) ELSE p

\* t_unterminated_comment: /\*(.|\n)*
unterminated_comment(s, p) ==
    IF StartsWith(s, p, <<"/", "*">>) THEN AnyRest(s, p + 2) ELSE NoMatch

(***************************************************************************)
(* The rule table                                                          *)
(***************************************************************************)

\* the text of the fixed-text rules (delimiters, comparators, operators,
\* punctuation)
Literal(name) ==
    CASE name = "LPAREN"   -> <<"(">>
      [] name = "RPAREN"   -> <<")">>
      [] name = "LBRACE"   -> <<"{">>
      [] name = "RBRACE"   -> <<"}">>
      [] name = "LBRACKET" -> <<"[">>
      [] name = "RBRACKET" -> <<"]">>
      [] name = "EQ"       -> <<"=", "=">>
      [] name = "NE"       -> <<"!", "=">>
      [] name = "LT"       -> <<"<">>
      [] name = "GT"       -> <<">">>
      [] name = "LE"       -> <<"<", "=">>
      [] name = "GE"       -> <<">", "=">>
      [] name = "EQUALS"   -> <<"=">>
      [] name = "PLUS"     -> <<"+">>
      [] name = "MOD"      -> <<"%">>
      [] name = "MINUS"    -> <<"-">>
      [] name = "TIMES"    -> <<"*">>
      [] name = "DIVIDE"   -> <<"/">>
      [] name = "AND"      -> <<"&", "&">>
      [] name = "OR"       -> <<"|", "|">>
      [] name = "NOT"      -> <<"!">>
      [] name = "ADDRESS"  -> <<"&">>
      [] name = "SEMI"     -> <<";">>
      [] name = "COMMA"    -> <<",">>

\* the rules with a handler function, in the order of their definition
FunctionRules ==
    <<"STRING_LITERAL", "ID", "NEWLINE", "comment",
      "unterminated_string", "unterminated_comment">>

\* the rules given as a pattern only, longest pattern text first (rules whose
\* pattern texts have the same length stay in the order of their names)
StringRules ==
    <<"FLOAT_CONST", "CHAR_CONST", "INT_CONST", "OR",
      "AND", "EQ", "GE", "LBRACE", "LBRACKET", "LE", "LPAREN", "NE", "PLUS",
      "RBRACE", "RBRACKET", "RPAREN", "TIMES",
      "ADDRESS", "COMMA", "DIVIDE", "EQUALS", "GT", "LT", "MINUS", "MOD",
      "NOT", "SEMI">>

\* the alternatives of the master pattern built by build(), in priority order
Rules == FunctionRules \o StringRules

\* the end offset of rule name's match at offset p of s, or NoMatch
RuleEnd(name, s, p) ==
    CASE name = "STRING_LITERAL"       -> STRING_LITERAL(s, p)
      [] name = "ID"                   -> ID(s, p)
      [] name = "NEWLINE"              -> NEWLINE(s, p)
      [] name = "comment"              -> comment(s, p)
      [] name = "unterminated_string"  -> unterminated_string(s, p)
      [] name = "unterminated_comment" -> unterminated_comment(s, p)
      [] name = "FLOAT_CONST"          -> FLOAT_CONST(s, p)
      [] name = "CHAR_CONST"           -> CHAR_CONST(s, p)
      [] name = "INT_CONST"            -> INT_CONST(s, p)
      [] OTHER                         -> MatchLit(s, p, Literal(name))

\* the indices of the rules that match at offset p
Matching(s, p) == {i \in 1..Len(Rules) : RuleEnd(Rules[i], s, p) # NoMatch}

\* the least of a set of rule indices (0 if there is none)
First(matching) ==
    IF matching = {} THEN 0
    ELSE CHOOSE i \in matching : \A j \in matching : i <= j

\* faulty variant of FirstMatch: the longest match wins, whatever the order,
\* and the order decides between matches of the same length only
FirstMatch_Longest(s, p) ==
    First({i \in Matching(s, p) :
             \A j \in Matching(s, p) :
                RuleEnd(Rules[j], s, p) <= RuleEnd(Rules[i], s, p)})

\* the alternative the master pattern takes at offset p: the first one, in
\* priority order, that matches (0: none does)
FirstMatch(s, p) == First(Matching(s, p))

\* t_ignore
t_ignore == {" ", "\t"}

\* the reserved words and their token types
keywords ==
    {[word |-> <<"a", "s", "s", "e", "r", "t">>, type |-> "ASSERT"],
     [word |-> <<"b", "o", "o", "l">>,           type |-> "BOOL"],
     [word |-> <<"b", "r", "e", "a", "k">>,      type |-> "BREAK"],
     [word |-> <<"c", "h", "a", "r">>,           type |-> "CHAR"],
     [word |-> <<"e", "l", "s", "e">>,           type |-> "ELSE"],
     [word |-> <<"f", "a", "l", "s", "e">>,      type |-> "FALSE"],
     [word |-> <<"f", "l", "o", "a", "t">>,      type |-> "FLOAT"],
     [word |-> <<"f", "o", "r">>,                type |-> "FOR"],
     [word |-> <<"i", "f">>,                     type |-> "IF"],
     [word |-> <<"i", "n", "t">>,                type |-> "INT"],
     [word |-> <<"p", "r", "i", "n", "t">>,      type |-> "PRINT"],
     [word |-> <<"r", "e", "a", "d">>,           type |-> "READ"],
     [word |-> <<"r", "e", "t", "u", "r", "n">>, type |-> "RETURN"],
     [word |-> <<"t", "r", "u", "e">>,           type |-> "TRUE"],
     [word |-> <<"v", "o", "i", "d">>,           type |-> "VOID"],
     [word |-> <<"w", "h", "i", "l", "e">>,      type |-> "WHILE"]}

\* keyword_map.get(value, "ID")
keyword_map(value) ==
    IF \E k \in keywords : k.word = value
    THEN (CHOOSE k \in keywords : k.word = value).type
    ELSE "ID"

\* all the token types the lexer may return
tokens ==
    {k.type : k \in keywords}
    \cup {"ID", "INT_CONST", "STRING_LITERAL", "CHAR_CONST", "FLOAT_CONST"}
    \cup {"LPAREN", "RPAREN", "LBRACE", "RBRACE", "LBRACKET", "RBRACKET"}
    \cup {"EQ", "NE", "LT", "GT", "LE", "GE"}
    \cup {"EQUALS", "PLUS", "MOD", "MINUS", "TIMES", "DIVIDE", "AND", "OR",
          "NOT", "ADDRESS"}
    \cup {"SEMI", "COMMA"}

(***************************************************************************)
(* Positions and errors                                                    *)
(***************************************************************************)

\* faulty variant of rfind: the first offset that holds c, not the last
rfind_First(s, c, end) ==
    IF \E k \in 0..(end - 1) : Ch(s, k) = c
    THEN CHOOSE k \in 0..(end - 1) :
            Ch(s, k) = c /\ \A j \in 0..(k - 1) : Ch(s, j) # c
    ELSE 0 - 1

\* s.rfind(c, 0, end): the last offset below end that holds c, or -1
RECURSIVE rfind(_, _, _)
rfind(s, c, end) ==
    IF end <= 0 THEN 0 - 1
    ELSE IF Ch(s, end - 1) = c THEN end - 1
    ELSE rfind(s, c, end - 1)

\* v.count(c)
RECURSIVE count(_, _)
count(v, c) ==
    IF v = <<>> THEN 0
    ELSE (IF Head(v) = c THEN 1 ELSE 0) + count(Tail(v), c)

\* find_tok_column(token), the buffer being s
find_tok_column(s, token) ==
    LET last_cr == rfind(s, NL, token.lexpos)
    IN  token.lexpos - last_cr

\* _make_tok_location(token)
make_tok_location(s, token) == <<token.lineno, find_tok_column(s, token)>>

\* faulty variant of Report: skip(2)
Report_SkipTwo(msg, token, location, pos) ==
    [event  |-> [kind |-> "error", msg |-> msg, line |-> location[1],
                 col |-> location[2], lexpos |-> token.lexpos],
     lexpos |-> pos + 2]

\* the call error_func(msg, location[0], location[1]), as an event of the
\* output (with the offset of the token the call is made for), and the cursor
\* after skip(1)
Report(msg, token, location, pos) ==
    [event  |-> [kind |-> "error", msg |-> msg, line |-> location[1],
                 col |-> location[2], lexpos |-> token.lexpos],
     lexpos |-> pos + 1]

\* faulty variant of error: the call of skip(1) is left out
error_NoSkip(msg, token, s, pos) ==
    [event  |-> [kind |-> "error", msg |-> msg, line |-> token.lineno,
                 col |-> find_tok_column(s, token), lexpos |-> token.lexpos],
     lexpos |-> pos]

\* _error(msg, token), the cursor being at pos
error(msg, token, s, pos) ==
    Report(msg, token, make_tok_location(s, token), pos)

(***************************************************************************)
(* The handlers of the function rules                                      *)
(***************************************************************************)

\* a token as the engine makes it for a match of s[pos:end]
LexToken(type, s, pos, end, line) ==
    [type |-> type, value |-> Slice(s, pos, end), lineno |-> line,
     lexpos |-> pos]

\* faulty variant of t_STRING_LITERAL: the quotes are kept
t_STRING_LITERAL_Keep(t) == t

\* t_STRING_LITERAL: t.value = t.value[1:-1]
t_STRING_LITERAL(t) ==
    [t EXCEPT !.value = SubSeq(t.value, 2, Len(t.value) - 1)]

\* faulty variant of t_ID: the keywords are not looked up
t_ID_NoLookup(t) == [t EXCEPT !.type = "ID"]

\* t_ID: t.type = keyword_map.get(t.value, "ID")
t_ID(t) == [t EXCEPT !.type = keyword_map(t.value)]

\* t_NEWLINE: the line counter after lineno += t.value.count("\n")
t_NEWLINE(t, line) == line + count(t.value, NL)

\* t_comment: the line counter after lineno += t.value.count("\n")
t_comment(t, line) == line + count(t.value, NL)

\* t_unterminated_string, the cursor being at pos (the end of the match)
t_unterminated_string(t, s, pos) == error(<<"Unterminated string">>, t, s, pos)

\* t_unterminated_comment, the cursor being at pos (the end of the match)
t_unterminated_comment(t, s, pos) ==
    error(<<"Unterminated comment">>, t, s, pos)

\* t_error: t.value is the rest of the input, the cursor is at its start
t_error(t, s, pos) == error(<<"Illegal character", t.value[1]>>, t, s, pos)

(***************************************************************************)
(* token(): one call of the engine, from cursor pos and line counter line, *)
(* out being the events of the call so far.  The result is the cursor and  *)
(* the line counter after the call, the token returned (None at the end of *)
(* the input), the events, and whether the call raised an exception.       *)
(***************************************************************************)
Return(pos, line, tok, out) ==
    [lexpos |-> pos, lineno |-> line, tok |-> tok, out |-> out,
     raised |-> FALSE]

Raise(pos, line, out) ==
    [lexpos |-> pos, lineno |-> line, tok |-> None,
     out |-> Append(out, [kind |-> "raise"]), raised |-> TRUE]

\* a handler returned the token t: its type must be one of tokens
ReturnChecked(pos, line, t, out) ==
    IF t.type \in tokens THEN Return(pos, line, t, out)
    ELSE Raise(pos, line, out)

RECURSIVE token_loop(_, _, _, _), AfterError(_, _, _, _, _),
          Handle(_, _, _, _, _), Pass(_, _, _, _)

\* the one element of a set of one element; used as The({F(x) : x \in {e}})
\* for F(e) with e evaluated once
The(S) == CHOOSE r \in S : TRUE

\* the loop of token(), entered with the cursor at pos
token_loop(s, pos, line, out) ==
    The({Pass(s, p, l, o) : <<p, l, o>> \in {<<pos, line, out>>}})

\* one pass through the loop of token()
Pass(s, pos, line, out) ==
    IF pos >= Len(s) THEN Return(pos + 1, line, None, out)
    ELSE IF Ch(s, pos) \in t_ignore THEN token_loop(s, pos + 1, line, out)
    ELSE The({Handle(s, pos, line, out, i) : i \in {FirstMatch(s, pos)}})

\* after the error handler of the engine (t_error) gave e with the cursor at
\* pos: an error handler that does not move the cursor is an exception
AfterError(s, pos, line, out, e) ==
    IF e.lexpos = pos
    THEN Raise(pos, line, Append(out, e.event))
    ELSE token_loop(s, e.lexpos, line, Append(out, e.event))

\* after the handler of an unterminated span gave e
AfterSkip(s, line, out, e) ==
    token_loop(s, e.lexpos, line, Append(out, e.event))

\* the handler of rule name, for the token t that ends at offset end
Call(s, line, out, name, end, t) ==
    CASE name = "STRING_LITERAL" ->
           ReturnChecked(end, line, t_STRING_LITERAL(t), out)
      [] name = "ID" ->
           ReturnChecked(end, line, t_ID(t), out)
      [] name = "NEWLINE" ->
           token_loop(s, end, t_NEWLINE(t, line), out)
      [] name = "comment" ->
           token_loop(s, end, t_comment(t, line), out)
      [] name = "unterminated_string" ->
           AfterSkip(s, line, out, t_unterminated_string(t, s, end))
      [] name = "unterminated_comment" ->
           AfterSkip(s, line, out, t_unterminated_comment(t, s, end))
      [] OTHER -> Return(end, line, t, out)

\* the match of rule name at pos, which ends at offset end
Matched(s, pos, line, out, name, end) ==
    Call(s, line, out, name, end, LexToken(name, s, pos, end, line))

\* alternative i of the master pattern matched at pos (0: none did)
Handle(s, pos, line, out, i) ==
    IF i = 0
    THEN AfterError(s, pos, line, out,
                    t_error(LexToken("error", s, pos, Len(s), line), s, pos))
    ELSE Matched(s, pos, line, out, Rules[i], RuleEnd(Rules[i], s, pos))

(***************************************************************************)
(* The source texts given to input()                                       *)
(***************************************************************************)

\* bounds of the model
MaxTextLen == 3
MaxWordLen == 3
MaxPastEnd == 3
MaxLineno == 3

\* all the texts over alphabet of length n at most
Texts(alphabet, n) == UNION {[1..k -> alphabet] : k \in 0..n}

\* strings, comments, newlines, illegal characters
TextAlphabet == {DQ, BS, NL, "/", "*", "@", "x"}

\* numbers
NumberAlphabet == {"1", ".", "e", "-", "_"}

\* identifiers and keywords, blanks, character constants
WordAlphabet == {"i", "f", "1", " ", SQ}

Examples ==
    {
     <<"i", "n", "t", " ", "@", "x", ";">>,
     <<"i", "n", "t", " ", "x", " ", "=", " ", "1", " ", "+", " ", "2", ";", NL>>,
     <<"1", "2", ".", "3", "4">>,
     <<"1", ".">>,
     <<".", "5">>,
     <<"1", "e", "1", "0">>,
     <<"1", ".", "5", "e", "-", "3">>,
     <<"1", "2", "e", "1", "0">>,
     <<".", "5", "e", "-", "3">>,
     <<DQ, "a", "b", "c">>,
     <<"/", "*", " ", "a", NL, "b">>,
     <<DQ, "a", NL, "b", DQ, " ", "x">>,
     <<DQ, "a", NL, "b", DQ, " ", DQ, "c">>,
     <<DQ, "a", BS, DQ, "b", DQ, " ", SQ, "c", SQ>>,
     <<"/", "*", " ", "a", NL, "*", "/", " ", "i", "f", " ", "(", "x", ")", NL, "/", "/", " ", "y", NL, DQ, "i", "n", "t", DQ>>,
     <<SQ, BS, "n", SQ, " ", SQ, SQ, " ", "i", "f", "f">>
    }

Inputs ==
    Examples
    \cup Texts(TextAlphabet, MaxTextLen)
    \cup Texts(NumberAlphabet, MaxWordLen)
    \cup Texts(WordAlphabet, MaxWordLen)

\* the texts of a later input() on the same lexer
Reloads ==
    {<<>>, <<"x">>, <<NL, "@">>, <<DQ, NL, DQ, "x">>, <<"/", "*", NL>>}

(***************************************************************************)
(* The lexer: its state after UCLexer(error_func) and build(), and its     *)
(* operations.  output is the sequence of the tokens returned and of the   *)
(* calls of the error function since the last input(), in order (what      *)
(* scan() and the error function of the driver print).  origin is where    *)
(* the caller last fixed the line numbering: the line counter and the      *)
(* cursor at the last input() or reset_lineno().                           *)
(***************************************************************************)
Init ==
    /\ lexdata = NoData
    /\ lexpos = 0
    /\ lineno = 1
    /\ last_token = None
    /\ output = <<>>
    /\ origin = [lineno |-> 1, lexpos |-> 0]

\* reset_lineno()
ResetLineno ==
    /\ lineno' = 1
    /\ origin' = [lineno |-> 1, lexpos |-> lexpos]
    /\ UNCHANGED <<lexdata, lexpos, last_token, output>>

\* faulty variant of Input: the line counter starts again at 1
Input_ResetsLine(text) ==
    /\ lexdata' = text
    /\ lexpos' = 0
    /\ lineno' = 1
    /\ output' = <<>>
    /\ origin' = [lineno |-> 1, lexpos |-> 0]
    /\ UNCHANGED last_token

\* input(text)
Input(text) ==
    /\ lexdata' = text
    /\ lexpos' = 0
    /\ output' = <<>>
    /\ origin' = [lineno |-> lineno, lexpos |-> 0]
    /\ UNCHANGED <<lineno, last_token>>

\* the first input() of a lexer
FirstInput ==
    /\ lexdata = NoData
    /\ \E text \in Inputs : Input(text)

\* a later input(), whatever the state of the scan
NextInput ==
    /\ lexdata # NoData
    /\ lineno <= MaxLineno
    /\ \E text \in Reloads : Input(text)

\* the state after a call of the engine's token() that gave r
Returned(r) ==
    /\ lexpos' = r.lexpos
    /\ lineno' = r.lineno
    /\ last_token' = IF r.raised THEN last_token ELSE r.tok
    /\ output' = output \o r.out \o
                 IF r.tok = None THEN <<>>
                 ELSE <<[kind |-> "token", tok |-> r.tok]>>

\* token(): self.last_token = self.lexer.token()
Token ==
    /\ lexdata # NoData
    /\ lexpos <= Len(lexdata) + MaxPastEnd
    /\ \E r \in {token_loop(lexdata, lexpos, lineno, <<>>)} : Returned(r)
    /\ UNCHANGED <<lexdata, origin>>

Next == FirstInput \/ NextInput \/ ResetLineno \/ Token

Spec == Init /\ [][Next]_vars

\* one scan: the lexer is given one text and asked for tokens to the end
NextScan == FirstInput \/ Token

ScanSpec == Init /\ [][NextScan]_vars /\ WF_vars(Token)

(***************************************************************************)
(* Properties                                                              *)
(***************************************************************************)

\* a text has been given to the lexer
Loaded == lexdata # NoData

\* the last call of token() reached the end of the input
AtEnd == Loaded /\ lexpos > Len(lexdata) /\ last_token = None

\* the number of newlines of s at the offsets a .. b - 1
Newlines(s, a, b) ==
    Cardinality({k \in a..(b - 1) : k < Len(s) /\ Ch(s, k) = NL})

\* the line of offset p of the buffer, by the numbering the caller fixed
LineOf(p) == origin.lineno + Newlines(lexdata, origin.lexpos, p)

\* c is the 1-based column of offset p of s: the c - 1 characters before p
\* hold no newline, and before them is a newline or the start of s
IsColumn(s, p, c) ==
    /\ c >= 1
    /\ c <= p + 1
    /\ \A k \in (p - c + 1)..(p - 1) : Ch(s, k) # NL
    /\ c = p + 1 \/ Ch(s, p - c) = NL

\* the events of the output that are tokens / calls of the error function
IsToken(e) == e.kind = "token"
IsError(e) == e.kind = "error"
IsUnterminated(e) ==
    IsError(e) /\ e.msg[1] \in {"Unterminated string", "Unterminated comment"}
IsIllegal(e) == IsError(e) /\ e.msg[1] = "Illegal character"

\* the types of the tokens of the output, in order
Types(out) == [k \in 1..Len(out) |-> IF IsToken(out[k]) THEN out[k].tok.type
                                     ELSE out[k].kind]

\* C3: the line counter is the line of the cursor: its value when the
\* numbering was fixed plus the newlines of every span consumed since
\* (newline runs, comments, string literals, unterminated spans), so
\* every token carries the line it starts on.
C3_LineCounter ==
    Loaded =>
      /\ lineno = LineOf(lexpos)
      /\ \A k \in 1..Len(output) :
            (IsToken(output[k]) /\ output[k].tok.lexpos >= origin.lexpos)
            => output[k].tok.lineno = LineOf(output[k].tok.lexpos)

\* C4: an unterminated string or comment is reported once, at the line and
\* column of its opening delimiter; nothing follows it in the output (no
\* token, no second report) and token() has returned the end of the input.
C4_UnterminatedReported ==
    Loaded =>
      \A k \in 1..Len(output) :
         IsUnterminated(output[k]) =>
           /\ Ch(lexdata, output[k].lexpos) \in {DQ, "/"}
           /\ IsColumn(lexdata, output[k].lexpos, output[k].col)
           /\ output[k].lexpos >= origin.lexpos
              => output[k].line = LineOf(output[k].lexpos)
           /\ k = Len(output)
           /\ AtEnd

\* the rule that gives tokens of a type: the identifier rule for the
\* keywords, the rule of the same name for the rest
RuleOf(type) ==
    IF type \in {k.type : k \in keywords} \cup {"ID"} THEN "ID" ELSE type

\* the place of a rule in the priority order
IndexOf(name) == CHOOSE i \in 1..Len(Rules) : Rules[i] = name

\* the end offset of the text a token of the output was matched on
TokenEnd(tok) == RuleEnd(RuleOf(tok.type), lexdata, tok.lexpos)

\* the offset an event of the output is about
Offset(e) == IF IsToken(e) THEN e.tok.lexpos ELSE e.lexpos

\* last_token is a token of the text now in the buffer, so that the cursor
\* is the end of its match
Fresh == Loaded /\ last_token # None /\ output # <<>>

\* the engine passes over offset p without a token or an error
Skipped(s, p) ==
    \/ Ch(s, p) \in t_ignore
    \/ NEWLINE(s, p) # NoMatch
    \/ comment(s, p) # NoMatch

Statement ==
    <<"i", "n", "t", " ", "x", " ", "=", " ", "1", " ", "+", " ", "2", ";", NL>>

\* C9: input(text) installs text and puts the cursor at 0 without touching
\* the line counter; reset_lineno() puts the line counter at 1 without
\* touching the buffer or the cursor.
C9_LoadAndReset ==
    [][/\ (\E text \in Inputs \cup Reloads : Input(text))
          => /\ lexdata' \in Inputs \cup Reloads
             /\ lexpos' = 0
             /\ lineno' = lineno
       /\ ResetLineno
          => /\ lineno' = 1
             /\ lexdata' = lexdata
             /\ lexpos' = lexpos]_vars

\* C9 happens: after a scan that ended on line 2, input() alone was called
\* and the first token of the new text is numbered 2
C9_Witness ==
    /\ lexdata = <<"x">>
    /\ origin = [lineno |-> 2, lexpos |-> 0]
    /\ Fresh
    /\ last_token.lineno = 2

\* C10: the column of every token and of every reported error is 1-based
\* and counts from the nearest newline before it (from the start of the
\* buffer if there is none); "int x = 1 + 2;\n" gives int x = 1 + 2 ; on
\* line 1, x at column 5, and then the end of the input.
C10_Columns ==
    Loaded =>
      /\ \A k \in 1..Len(output) :
            /\ IsToken(output[k])
               => IsColumn(lexdata, output[k].tok.lexpos,
                           find_tok_column(lexdata, output[k].tok))
            /\ IsError(output[k])
               => IsColumn(lexdata, output[k].lexpos, output[k].col)
      /\ (lexdata = Statement /\ lexpos > Len(lexdata))
         => /\ Types(output) = <<"INT", "ID", "EQUALS", "INT_CONST", "PLUS",
                                 "INT_CONST", "SEMI">>
            /\ \A k \in 1..Len(output) : output[k].tok.lineno = 1
            /\ output[2].tok.value = <<"x">>
            /\ find_tok_column(lexdata, output[2].tok) = 5
            /\ last_token = None

\* C10 happens: the statement has been scanned to the end
C10_Witness ==
    lexdata = Statement /\ lexpos > Len(lexdata) /\ Len(output) = 7

IllegalExample == <<"i", "n", "t", " ", "@", "x", ";">>

\* C5: a character no rule matches is reported as illegal, with that
\* character, where it stands; no token covers it; the scan goes on at the
\* next character in the same call of token() (so the output never ends in
\* an error before the end of the input); "int @x;" gives the keyword int,
\* the error at column 5, the identifier x and the semicolon.
C5_IllegalCharacter ==
    Loaded =>
      /\ \A k \in 1..Len(output) :
            IsIllegal(output[k]) =>
              /\ Matching(lexdata, output[k].lexpos) = {}
              /\ Ch(lexdata, output[k].lexpos) \notin t_ignore
              /\ output[k].msg[2] = Ch(lexdata, output[k].lexpos)
              /\ \A j \in 1..Len(output) :
                    IsToken(output[j])
                    => output[k].lexpos \notin
                         output[j].tok.lexpos..(TokenEnd(output[j].tok) - 1)
              /\ (/\ output[k].lexpos + 1 < Len(lexdata)
                  /\ ~Skipped(lexdata, output[k].lexpos + 1))
                 => /\ k < Len(output)
                    /\ Offset(output[k + 1]) = output[k].lexpos + 1
      /\ (output # <<>> /\ IsError(output[Len(output)]))
         => lexpos > Len(lexdata)
      /\ (lexdata = IllegalExample /\ lexpos > Len(lexdata))
         => output =
              <<[kind |-> "token",
                 tok |-> [type |-> "INT", value |-> <<"i", "n", "t">>,
                          lineno |-> 1, lexpos |-> 0]],
                [kind |-> "error", msg |-> <<"Illegal character", "@">>,
                 line |-> 1, col |-> 5, lexpos |-> 4],
                [kind |-> "token",
                 tok |-> [type |-> "ID", value |-> <<"x">>,
                          lineno |-> 1, lexpos |-> 5]],
                [kind |-> "token",
                 tok |-> [type |-> "SEMI", value |-> <<";">>,
                          lineno |-> 1, lexpos |-> 6]]>>

\* C5 happens: the call of token() that met "@" has returned the identifier
C5_Witness ==
    /\ lexdata = IllegalExample
    /\ Len(output) = 3
    /\ IsIllegal(output[2])
    /\ Fresh
    /\ last_token.type = "ID"

\* the sixteen reserved spellings and their kinds
Reserved(value) ==
    CASE value = <<"a", "s", "s", "e", "r", "t">> -> "ASSERT"
      [] value = <<"b", "o", "o", "l">>           -> "BOOL"
      [] value = <<"b", "r", "e", "a", "k">>      -> "BREAK"
      [] value = <<"c", "h", "a", "r">>           -> "CHAR"
      [] value = <<"e", "l", "s", "e">>           -> "ELSE"
      [] value = <<"f", "a", "l", "s", "e">>      -> "FALSE"
      [] value = <<"f", "l", "o", "a", "t">>      -> "FLOAT"
      [] value = <<"f", "o", "r">>                -> "FOR"
      [] value = <<"i", "f">>                     -> "IF"
      [] value = <<"i", "n", "t">>                -> "INT"
      [] value = <<"p", "r", "i", "n", "t">>      -> "PRINT"
      [] value = <<"r", "e", "a", "d">>           -> "READ"
      [] value = <<"r", "e", "t", "u", "r", "n">> -> "RETURN"
      [] value = <<"t", "r", "u", "e">>           -> "TRUE"
      [] value = <<"v", "o", "i", "d">>           -> "VOID"
      [] value = <<"w", "h", "i", "l", "e">>      -> "WHILE"
      [] OTHER                                    -> "ID"

ReservedKinds ==
    {"ASSERT", "BOOL", "BREAK", "CHAR", "ELSE", "FALSE", "FLOAT", "FOR",
     "IF", "INT", "PRINT", "READ", "RETURN", "TRUE", "VOID", "WHILE"}

KeywordExample ==
    <<"/", "*", " ", "a", NL, "*", "/", " ", "i", "f", " ", "(", "x", ")", NL,
      "/", "/", " ", "y", NL, DQ, "i", "n", "t", DQ>>

\* C8: a token matched on an identifier-shaped span has the matched text as
\* its value and the kind of the keyword it spells, Identifier if it spells
\* none; a token matched by another rule never has a keyword kind (nor
\* Identifier).
C8_Keywords ==
    Loaded =>
      \A k \in 1..Len(output) :
         IsToken(output[k]) =>
           IF ID(lexdata, output[k].tok.lexpos) # NoMatch
           THEN /\ output[k].tok.value =
                     Slice(lexdata, output[k].tok.lexpos,
                           ID(lexdata, output[k].tok.lexpos))
                /\ output[k].tok.type = Reserved(output[k].tok.value)
           ELSE output[k].tok.type \notin ReservedKinds \cup {"ID"}

\* C8 happens: a keyword, an identifier and a string that spells a keyword
\* have been returned
C8_Witness ==
    /\ lexdata = KeywordExample
    /\ lexpos > Len(lexdata)
    /\ Types(output) = <<"IF", "LPAREN", "ID", "RPAREN", "STRING_LITERAL">>
    /\ output[5].tok.value = <<"i", "n", "t">>

FloatExamples ==
    {<<"1", "2", ".", "3", "4">>, <<"1", ".">>, <<".", "5">>,
     <<"1", "e", "1", "0">>, <<"1", ".", "5", "e", "-", "3">>}

\* C6: each of 12.34, 1., .5, 1e10 and 1.5e-3 is scanned as one floating
\* constant whose text is the whole input.
C6_FloatExamples ==
    (Loaded /\ lexdata \in FloatExamples /\ lexpos > Len(lexdata))
    => /\ Types(output) = <<"FLOAT_CONST">>
       /\ output[1].tok.value = lexdata

\* C2 as stated: the rule that gives a token has the longest match at the
\* token's offset among all the rules that match there, and of the rules
\* with a match of that length it is the first in priority order.
C2_LongestMatch ==
    Fresh =>
      \A i \in Matching(lexdata, last_token.lexpos) :
         /\ RuleEnd(Rules[i], lexdata, last_token.lexpos) <= lexpos
         /\ RuleEnd(Rules[i], lexdata, last_token.lexpos) = lexpos
            => IndexOf(RuleOf(last_token.type)) <= i

\* C2 amended: the rule that gives a token, or that reports an unterminated
\* span, is the first rule in priority order that matches at that offset,
\* whatever the lengths of the matches of the rules after it; the token ends
\* where that rule's match ends.
C2_FirstInOrder ==
    Loaded =>
      /\ Fresh
         => /\ RuleEnd(RuleOf(last_token.type), lexdata, last_token.lexpos)
                 = lexpos
            /\ \A j \in 1..(IndexOf(RuleOf(last_token.type)) - 1) :
                  RuleEnd(Rules[j], lexdata, last_token.lexpos) = NoMatch
      /\ \A k \in 1..Len(output) :
            /\ (IsUnterminated(output[k])
                /\ output[k].msg[1] = "Unterminated string")
               => \A j \in 1..(IndexOf("unterminated_string") - 1) :
                     RuleEnd(Rules[j], lexdata, output[k].lexpos) = NoMatch
            /\ (IsUnterminated(output[k])
                /\ output[k].msg[1] = "Unterminated comment")
               => \A j \in 1..(IndexOf("unterminated_comment") - 1) :
                     RuleEnd(Rules[j], lexdata, output[k].lexpos) = NoMatch

\* C2 happens: a string literal has been returned where the rule of the
\* unterminated string, later in the order, matches a longer text
C2_Witness ==
    /\ Fresh
    /\ last_token.type = "STRING_LITERAL"
    /\ unterminated_string(lexdata, last_token.lexpos) > lexpos

\* C1: every call of token() moves the cursor forward and raises nothing;
\* every error it reports is about an offset the call passes (at or after the
\* cursor before the call, before the cursor after it); and once a text is
\* loaded, token() comes to return the end of the input.
C1_Progress ==
    /\ [][Token =>
            /\ lexpos' > lexpos
            /\ \A k \in (Len(output) + 1)..Len(output') :
                  /\ output'[k].kind # "raise"
                  /\ IsError(output'[k])
                     => /\ lexpos <= output'[k].lexpos
                        /\ output'[k].lexpos < lexpos']_vars
    /\ Loaded ~> AtEnd

\* C1 happens: a text with an illegal character and an unterminated string
\* has been scanned to the end
C1_Witness ==
    /\ AtEnd
    /\ \E j, k \in 1..Len(output) :
          IsIllegal(output[j]) /\ IsUnterminated(output[k])

====
